---------------------------- MODULE Spec2Model ----------------------------
(***************************************************************************)
(* A model of the diagnostic pipeline (src/src/check.rs: publish,          *)
(* maybe_publish, diagnostic_handler) and of the document ownership        *)
(* manager (src/src/main.rs: Backend::remove, Backend::load,               *)
(* load_blocking, did_open, did_close, did_change_watched_files) of uvls.  *)
(*                                                                         *)
(* An Option<T> is modelled as a sequence of length 0 (None) or 1 (Some),  *)
(* a HashMap / DashMap as a function whose DOMAIN is the set of keys.      *)
(***************************************************************************)
EXTENDS Integers, Sequences, FiniteSets, Bags, TLC

(***************************************************************************)
(* Bounds of the model.                                                    *)
(***************************************************************************)
\* timestamps of DiagnosticUpdate range over 1..MaxTime
MaxTime == 2
\* number of DiagnosticUpdate values the producers send in one behaviour
MaxUpdates == 3
\* length of the lists the Publisher is applied to on its own
MaxLen == 3
\* a weight used by a phase outside this file (the reference checker)
WeightOther == 20
\* modification times of the files range over 1..MaxMtime
MaxMtime == 2
\* number of load_blocking tasks in flight at once
MaxTasks == 2
\* updates sent before the server ends
MaxLifeUpdates == 2
\* nodes of a syntax tree below the root
MaxNodes == 4
\* characters of the text of an error node
MaxText == 3
\* the last row of a source text
MaxRow == 2
\* nodes below a matched expr node
MaxSub == 2
\* matches of header, name and string nodes in one call of check_sanity
MaxMatches == 3

(***************************************************************************)
(* Program constants.                                                      *)
(***************************************************************************)
\* check.rs:124 weight of the sanity diagnostics
WeightSanity == 100
\* check.rs:185 weight of the classified parser errors
WeightSyntax == 80

(***************************************************************************)
(* Data: ErrorInfo, Diagnostic, DiagnosticUpdate, DiagnosticState.         *)
(***************************************************************************)
URIs == {"u1", "u2"}

Weights == {WeightOther, WeightSyntax, WeightSanity}

\* struct ErrorInfo: the location and the severity play no part in the
\* merge and the filter; msg and weight are kept.
ErrorInfo == [msg : {"a", "b"}, weight : Weights]

\* the two ErrorInfo values the check phases of the model produce
ErrA == [msg |-> "a", weight |-> WeightSanity]
ErrB == [msg |-> "b", weight |-> WeightSyntax]

\* the error lists one phase reports for one document
BatchErrs == {<<>>, <<ErrA>>, <<ErrB>>}

\* ErrorInfo::diagnostic: the weight is dropped, the message kept
diagnostic(e) == [message |-> e.msg]

Timestamps == 1..MaxTime

\* struct DiagnosticUpdate over the documents of U, with error lists of B
UpdatesWith(U, B) ==
    { [error_state |-> es, timestamp |-> t] :
        es \in UNION { [S -> B] : S \in SUBSET U }, t \in Timestamps }

UpdatesOver(U) == UpdatesWith(U, BatchErrs)

None == <<>>
Some(x) == <<x>>
IsSome(o) == Len(o) = 1
Get(o) == o[1]

(***************************************************************************)
(* Pure functions.                                                         *)
(***************************************************************************)
RECURSIVE Reverse(_)
Reverse(s) == IF s = <<>> THEN <<>> ELSE Append(Reverse(Tail(s)), Head(s))

RECURSIVE MapDiagnostic(_)
MapDiagnostic(s) ==
    IF s = <<>> THEN <<>> ELSE <<diagnostic(Head(s))>> \o MapDiagnostic(Tail(s))

RECURSIVE FilterWeight(_, _)
FilterWeight(s, w) ==
    IF s = <<>> THEN <<>>
    ELSE IF Head(s).weight = w THEN <<Head(s)>> \o FilterWeight(Tail(s), w)
    ELSE FilterWeight(Tail(s), w)

\* Iterator::max_by_key(|e| e.weight): the last element of maximal key,
\* None on an empty list
RECURSIVE MaxByWeightFrom(_, _)
MaxByWeightFrom(s, best) ==
    IF s = <<>> THEN best
    ELSE MaxByWeightFrom(Tail(s),
            IF Head(s).weight >= best.weight THEN Head(s) ELSE best)

MaxByWeight(err) ==
    IF err = <<>> THEN None ELSE Some(MaxByWeightFrom(Tail(err), Head(err)))

\* mutants of publish
PublishNoRev(err) ==
    LET max == MaxByWeight(err)
    IN  IF IsSome(max)
        THEN MapDiagnostic(FilterWeight(err, Get(max).weight))
        ELSE <<>>

PublishNoFilter(err) == MapDiagnostic(Reverse(err))

\* publish(client, uri, err): the list handed to client.publish_diagnostics
Publish(err) ==
    LET max == MaxByWeight(err)
    IN  IF IsSome(max)
        THEN MapDiagnostic(FilterWeight(Reverse(err), Get(max).weight))
        ELSE <<>>

\* HashMap::insert / assignment through get_mut
MapPut(m, k, v) == [x \in DOMAIN m \cup {k} |-> IF x = k THEN v ELSE m[x]]
\* removal of a key
MapDel(m, k) == [x \in DOMAIN m \ {k} |-> m[x]]

\* mutants of maybe_publish
MaybePublishStaleWins(sm, uri, err, timestamp) ==
    IF uri \in DOMAIN sm /\ sm[uri].timestamp = timestamp
    THEN [source_map |-> MapPut(sm, uri, [timestamp |-> timestamp,
                                          error |-> sm[uri].error \o err]),
          handed |-> Some(sm[uri].error \o err)]
    ELSE [source_map |-> MapPut(sm, uri, [timestamp |-> timestamp, error |-> err]),
          handed |-> Some(err)]

MaybePublishReplaceOnEqual(sm, uri, err, timestamp) ==
    IF uri \in DOMAIN sm /\ sm[uri].timestamp > timestamp
    THEN [source_map |-> sm, handed |-> None]
    ELSE [source_map |-> MapPut(sm, uri, [timestamp |-> timestamp, error |-> err]),
          handed |-> Some(err)]

MaybePublishAppendOnNewer(sm, uri, err, timestamp) ==
    IF uri \in DOMAIN sm
    THEN IF sm[uri].timestamp <= timestamp
         THEN [source_map |-> MapPut(sm, uri, [timestamp |-> timestamp,
                                               error |-> sm[uri].error \o err]),
               handed |-> Some(sm[uri].error \o err)]
         ELSE [source_map |-> sm, handed |-> None]
    ELSE [source_map |-> MapPut(sm, uri, [timestamp |-> timestamp, error |-> err]),
          handed |-> Some(err)]

\* mutant of maybe_publish: a newer batch starts the map afresh
MaybePublishResetsMap(sm, uri, err, timestamp) ==
    IF uri \in DOMAIN sm
    THEN LET old == sm[uri]
         IN  IF old.timestamp < timestamp
             THEN [source_map |-> (uri :> [timestamp |-> timestamp,
                                           error |-> err]),
                   handed |-> Some(err)]
             ELSE IF old.timestamp = timestamp
             THEN [source_map |-> MapPut(sm, uri, [timestamp |-> timestamp,
                                                   error |-> old.error \o err]),
                   handed |-> Some(old.error \o err)]
             ELSE [source_map |-> sm, handed |-> None]
    ELSE [source_map |-> MapPut(sm, uri, [timestamp |-> timestamp, error |-> err]),
          handed |-> Some(err)]

\* mutant of maybe_publish: a batch of equal timestamp is appended to the
\* stored list, and publish is given the batch alone
MaybePublishHandsBatch(sm, uri, err, timestamp) ==
    IF uri \in DOMAIN sm
    THEN LET old == sm[uri]
         IN  IF old.timestamp < timestamp
             THEN [source_map |-> MapPut(sm, uri, [timestamp |-> timestamp,
                                                   error |-> err]),
                   handed |-> Some(err)]
             ELSE IF old.timestamp = timestamp
             THEN [source_map |-> MapPut(sm, uri, [timestamp |-> timestamp,
                                                   error |-> old.error \o err]),
                   handed |-> Some(err)]
             ELSE [source_map |-> sm, handed |-> None]
    ELSE [source_map |-> MapPut(sm, uri, [timestamp |-> timestamp, error |-> err]),
          handed |-> Some(err)]

\* maybe_publish(client, source_map, uri, err, timestamp): the new
\* source_map and the list handed to publish (None: publish is not called)
MaybePublish(sm, uri, err, timestamp) ==
    IF uri \in DOMAIN sm
    THEN LET old == sm[uri]
         IN  IF old.timestamp < timestamp
             THEN [source_map |-> MapPut(sm, uri, [timestamp |-> timestamp,
                                                   error |-> err]),
                   handed |-> Some(err)]
             ELSE IF old.timestamp = timestamp
             THEN [source_map |-> MapPut(sm, uri, [timestamp |-> timestamp,
                                                   error |-> old.error \o err]),
                   handed |-> Some(old.error \o err)]
             ELSE [source_map |-> sm, handed |-> None]
    ELSE [source_map |-> MapPut(sm, uri, [timestamp |-> timestamp, error |-> err]),
          handed |-> Some(err)]

(***************************************************************************)
(* Documents: DocumentState, the files, the load tasks.                    *)
(***************************************************************************)
DocURIs == {"d1"}

\* enum DocumentState
OwnedByEditor == [tag |-> "OwnedByEditor"]
OwnedByOs(t) == [tag |-> "OwnedByOs", modified |-> t]

IsOwnedByOs(m, uri) == uri \in DOMAIN m /\ m[uri].tag = "OwnedByOs"
IsOwnedByEditor(m, uri) == uri \in DOMAIN m /\ m[uri] = OwnedByEditor

\* DocumentState::can_update(&self, other), for other = OwnedByOs(t): an
\* editor-owned document accepts no disk state, an OS-owned one only a
\* strictly newer modification time
CanUpdate(old, new) ==
    IF old.tag = "OwnedByEditor" THEN FALSE
    ELSE new.modified > old.modified

\* what fails on a file: nothing, f.metadata() / meta.modified(), or
\* f.read_to_string()
Faults == {"none", "meta", "read"}

\* a running load_blocking task: where it stands, its uri, and the
\* modification time it has read (0 before it has)
TaskStates == [pc : {"open", "check", "entry"}, uri : DocURIs,
               modified : 0..MaxMtime]

\* DashMap::get as an Option
Lookup(m, uri) == IF uri \in DOMAIN m THEN Some(m[uri]) ELSE None

(***************************************************************************)
(* Syntax trees, the tree cursor, ts_filterd_visit.                        *)
(***************************************************************************)
\* the node a cursor is made on (root.walk()); the cursor never leaves the
\* subtree of this node
Root == 0

\* The trees with n nodes below the root: parent[i] < i is the parent of
\* node i, and the children of a node stand in the order of their numbers.
TreesOf(n) == { p \in [1..n -> 0..(n - 1)] : \A i \in 1..n : p[i] < i }

Trees == UNION { TreesOf(n) : n \in 0..MaxNodes }

Children(p, x) == { i \in DOMAIN p : p[i] = x }

MinOf(S) == CHOOSE x \in S : \A y \in S : x <= y

\* TreeCursor::goto_first_child, goto_next_sibling, goto_parent from node c:
\* whether the cursor moved, and the node it is on afterwards
GotoFirstChild(p, c) ==
    IF Children(p, c) = {}
    THEN [ok |-> FALSE, node |-> c]
    ELSE [ok |-> TRUE, node |-> MinOf(Children(p, c))]

GotoNextSibling(p, c) ==
    IF c = Root
    THEN [ok |-> FALSE, node |-> c]
    ELSE LET sib == { i \in Children(p, p[c]) : i > c }
         IN  IF sib = {}
             THEN [ok |-> FALSE, node |-> c]
             ELSE [ok |-> TRUE, node |-> MinOf(sib)]

GotoParent(p, c) ==
    IF c = Root
    THEN [ok |-> FALSE, node |-> c]
    ELSE [ok |-> TRUE, node |-> p[c]]

\* A call of ts_filterd_visit(root, f) on the tree `tree`: f returns false
\* on the nodes of deny and true on the others; calls is the sequence of the
\* nodes f has been called on.
WalkInit(tree, deny) ==
    [tree |-> tree, deny |-> deny, cursor |-> Root, calls |-> <<>>,
     pc |-> "start"]

\* no call
WalkIdle ==
    [tree |-> <<>>, deny |-> {}, cursor |-> Root, calls |-> <<>>,
     pc |-> "done"]

\* `if !cursor.goto_first_child() { return; }`
WalkStartOf(w) ==
    LET g == GotoFirstChild(w.tree, w.cursor)
    IN  IF ~g.ok
        THEN [w EXCEPT !.pc = "done"]
        ELSE [w EXCEPT !.cursor = g.node, !.pc = "visit"]

\* mutant of the head of the while loop: the result of f is not looked at
WalkVisitDescendsAlways(w) ==
    LET n  == w.cursor
        w1 == [w EXCEPT !.calls = Append(@, n)]
        d  == GotoFirstChild(w.tree, n)
        s  == GotoNextSibling(w.tree, n)
    IN  IF d.ok
        THEN [w1 EXCEPT !.cursor = d.node]
        ELSE IF s.ok
             THEN [w1 EXCEPT !.cursor = s.node]
             ELSE [w1 EXCEPT !.pc = "climb"]

\* the head of the while loop: `if f(cursor.node()) &&
\* cursor.goto_first_child() { continue; }` and `if
\* cursor.goto_next_sibling() { continue; }`
WalkVisitOf(w) ==
    LET n  == w.cursor
        w1 == [w EXCEPT !.calls = Append(@, n)]
        d  == GotoFirstChild(w.tree, n)
        s  == GotoNextSibling(w.tree, n)
    IN  IF n \notin w.deny /\ d.ok
        THEN [w1 EXCEPT !.cursor = d.node]
        ELSE IF s.ok
             THEN [w1 EXCEPT !.cursor = s.node]
             ELSE [w1 EXCEPT !.pc = "climb"]

\* one turn of the inner loop: goto_parent, the test for the root,
\* goto_next_sibling
WalkClimbOf(w) ==
    LET u == GotoParent(w.tree, w.cursor)
    IN  IF ~u.ok
        THEN [w EXCEPT !.pc = "done"]
        ELSE IF u.node = Root
             THEN [w EXCEPT !.cursor = u.node, !.pc = "done"]
             ELSE LET s == GotoNextSibling(w.tree, u.node)
                  IN  IF s.ok
                      THEN [w EXCEPT !.cursor = s.node, !.pc = "visit"]
                      ELSE [w EXCEPT !.cursor = u.node]

WalkStepOf(w) ==
    CASE w.pc = "start" -> WalkStartOf(w)
      [] w.pc = "visit" -> WalkVisitOf(w)
      [] w.pc = "climb" -> WalkClimbOf(w)

\* the call run to its return
RECURSIVE WalkRun(_)
WalkRun(w) == IF w.pc = "done" THEN w ELSE WalkRun(WalkStepOf(w))

\* ts_filterd_visit(root, f): the nodes f is called on, in order
TsFilterdVisit(tree, deny) == WalkRun(WalkInit(tree, deny)).calls

(***************************************************************************)
(* classify_error.                                                         *)
(***************************************************************************)
\* the characters of the text of an error node: those of the operators,
\* one other character and the line break
Chars == {"=", ">", "<", "&", "|", "+", "-", "*", "/", "a", "\n"}

Texts == UNION { [1..n -> Chars] : n \in 0..MaxText }

RECURSIVE CountChar(_, _)
CountChar(text, c) ==
    IF text = <<>> THEN 0
    ELSE (IF Head(text) = c THEN 1 ELSE 0) + CountChar(Tail(text), c)

\* an error node that starts on start_row: it ends as many rows further as
\* its text has line breaks
ErrorNode(start_row, text) ==
    [start_row |-> start_row,
     end_row |-> start_row + CountChar(text, "\n"),
     text |-> text]

\* str::contains(pat)
Contains(text, pat) ==
    \E i \in 1..(Len(text) - Len(pat) + 1) :
        SubSeq(text, i, i + Len(pat) - 1) = pat

\* mutant of classify_error: the rows of the node are not compared
ClassifyErrorAnyLine(root) ==
    IF \/ Contains(root.text, <<"=", ">">>)
       \/ Contains(root.text, <<"<", "=", ">">>)
       \/ Contains(root.text, <<"&">>)
       \/ Contains(root.text, <<"|">>)
       \/ Contains(root.text, <<"+">>)
       \/ Contains(root.text, <<"-">>)
       \/ Contains(root.text, <<"*">>)
       \/ Contains(root.text, <<"/">>)
       \/ Contains(root.text, <<">">>)
       \/ Contains(root.text, <<"<">>)
       \/ Contains(root.text, <<"=", "=">>)
    THEN [severity |-> "ERROR", weight |-> WeightSyntax,
          msg |-> "missing lhs or rhs expression"]
    ELSE [severity |-> "ERROR", weight |-> WeightSyntax,
          msg |-> "unknown syntax error"]

\* classify_error(root, source): the ErrorInfo without its location
ClassifyError(root) ==
    IF /\ root.start_row = root.end_row
       /\ \/ Contains(root.text, <<"=", ">">>)
          \/ Contains(root.text, <<"<", "=", ">">>)
          \/ Contains(root.text, <<"&">>)
          \/ Contains(root.text, <<"|">>)
          \/ Contains(root.text, <<"+">>)
          \/ Contains(root.text, <<"-">>)
          \/ Contains(root.text, <<"*">>)
          \/ Contains(root.text, <<"/">>)
          \/ Contains(root.text, <<">">>)
          \/ Contains(root.text, <<"<">>)
          \/ Contains(root.text, <<"=", "=">>)
    THEN [severity |-> "ERROR", weight |-> WeightSyntax,
          msg |-> "missing lhs or rhs expression"]
    ELSE [severity |-> "ERROR", weight |-> WeightSyntax,
          msg |-> "unknown syntax error"]

(***************************************************************************)
(* check_sanity.                                                           *)
(***************************************************************************)
Rows == 0..MaxRow

\* start_position().row and end_position().row of a node
Spans == { sp \in [start_row : Rows, end_row : Rows] :
             sp.start_row <= sp.end_row }

\* a node below a matched node: its kind and its rows
SubNodes == [kind : {"nested_expr", "other"}, start_row : Rows,
             end_row : Rows]

\* The subtrees of a matched node with rows L..M that have n nodes: a node
\* lies within the rows of its parent, and a sibling starts no earlier than
\* the sibling before it ends.
SubTreesOf(n, L, M) ==
    { t \in [parent : TreesOf(n), nodes : [1..n -> SubNodes]] :
        \A i \in 1..n :
           /\ t.nodes[i].start_row <= t.nodes[i].end_row
           /\ IF t.parent[i] = Root
              THEN L <= t.nodes[i].start_row /\ t.nodes[i].end_row <= M
              ELSE /\ t.nodes[t.parent[i]].start_row <= t.nodes[i].start_row
                   /\ t.nodes[i].end_row <= t.nodes[t.parent[i]].end_row
           /\ \A j \in 1..n :
                 (i < j /\ t.parent[i] = t.parent[j])
                 => t.nodes[i].end_row <= t.nodes[j].start_row }

NoSubTree == [parent |-> <<>>, nodes |-> <<>>]

\* one match of the query check_sanity: the kind and the rows of
\* captures[0].node, the index of the pattern, the tree below the node
SubTrees(L, M) == UNION { SubTreesOf(n, L, M) : n \in 0..MaxSub }

ExprMatches(sp) ==
    { [kind |-> "expr", pattern_index |-> pi,
       start_row |-> sp.start_row, end_row |-> sp.end_row, sub |-> t] :
        pi \in {0, 1}, t \in SubTrees(sp.start_row, sp.end_row) }

OtherMatches ==
    { [kind |-> "other", pattern_index |-> pi, start_row |-> sp.start_row,
       end_row |-> sp.end_row, sub |-> NoSubTree] :
        pi \in {0, 1}, sp \in Spans }

\* an ErrorInfo of check_sanity; node is the place in the sequence of matches
\* of the node whose range is the location
SanityError(msg, node) ==
    [weight |-> WeightSanity, severity |-> "ERROR", msg |-> msg,
     node |-> node]

\* mutant of the ranges of rows: the end row is included
RowRangeInclusive(n) == n.start_row..n.end_row

\* `node.start_position().row..node.end_position().row`
RowRange(n) == n.start_row..(n.end_row - 1)

\* the closure handed to ts_filterd_visit: it returns false on a
\* nested_expr, whose rows it pushes on ok_lines, and true on any other node
OkLines(m) ==
    LET nested == { i \in DOMAIN m.sub.nodes :
                      m.sub.nodes[i].kind = "nested_expr" }
        calls  == TsFilterdVisit(m.sub.parent, nested)
    IN  UNION { RowRange(m.sub.nodes[calls[k]]) :
                  k \in { k \in 1..Len(calls) : calls[k] \in nested } }

\* `for i in start row..end row`, from row i on: one ErrorInfo for each row
\* that is not in ok_lines
RECURSIVE LineBreakErrors(_, _, _, _)
LineBreakErrors(rows, i, ok, node) ==
    IF rows = {} \/ \A r \in rows : r < i
    THEN <<>>
    ELSE (IF i \in rows /\ i \notin ok
          THEN <<SanityError("line breaks are only allowed inside parenthesis",
                             node)>>
          ELSE <<>>)
         \o LineBreakErrors(rows, i + 1, ok, node)

\* check_sanity from the match at place k on: error is the Vec of the errors
\* pushed so far, lines the rows that are keys of the HashMap lines
RECURSIVE CheckSanityFrom(_, _, _, _)
CheckSanityFrom(matches, k, error, lines) ==
    IF k > Len(matches)
    THEN error
    ELSE
      LET m == matches[k]
      IN  IF m.kind = "expr"
          THEN IF m.start_row = m.end_row
               THEN CheckSanityFrom(matches, k + 1, error, lines)
               ELSE CheckSanityFrom(matches, k + 1,
                       error \o LineBreakErrors(RowRange(m), m.start_row,
                                                OkLines(m), k),
                       lines)
          ELSE IF m.pattern_index = 0
          THEN CheckSanityFrom(matches, k + 1,
                  error
                  \o (IF m.start_row /= m.end_row
                      THEN <<SanityError(
                               "line breaks are only allowed inside parenthesis",
                               k)>>
                      ELSE <<>>)
                  \o (IF m.start_row \in lines
                      THEN <<SanityError(
                               "features have to be in diffrent lines", k)>>
                      ELSE <<>>),
                  lines \cup {m.start_row})
          ELSE CheckSanityFrom(matches, k + 1,
                  error
                  \o (IF m.start_row /= m.end_row
                      THEN <<SanityError(
                               "multiline strings are not supported", k)>>
                      ELSE <<>>),
                  lines)

\* check_sanity(tree, source) on the matches of the query in their order
CheckSanity(matches) == CheckSanityFrom(matches, 1, <<>>, {})

(***************************************************************************)
(* State.                                                                  *)
(***************************************************************************)
VARIABLES
    \* Coordinator (diagnostic_handler)
    source_map,     \* HashMap<Url, DiagnosticState> of diagnostic_handler
    rx,             \* number of updates waiting in the mpsc channel
    update,         \* Some(update being drained), its processed URIs removed
    handler_pc,     \* "select" | "drain" | "returned"
    shutdown,       \* ctx.shutdown is cancelled
    closed,         \* every Sender of the channel is dropped
    sent,           \* number of updates sent so far
    \* the editor client, as the Coordinator's publishes leave it
    published,      \* per URI: the timestamp and the diagnostics of the last publish
    last,           \* Some(record of the last maybe_publish call)
    log,            \* the batches processed so far, in order
    \* the Publisher on its own
    pub_in,         \* the list publish is applied to
    pub_out,        \* the publish_diagnostics calls made for it
    \* Document ownership manager (Backend)
    documents,      \* DashMap<Url, AsyncDraft>: the DocumentState of each draft
    disk,           \* the files: modification time and what fails on them
    tasks,          \* the bag of spawn_blocking tasks running load_blocking
    closing,        \* URIs whose did_close has called remove and not yet load
    dlast,          \* Some(record of the last operation on documents)
    \* the check functions on their own
    walk,           \* one call of ts_filterd_visit: tree, predicate, cursor
    sanity,         \* one call of check_sanity: the matches and the errors
    classify        \* one call of classify_error: the node and the result

coordVars == <<source_map, rx, update, handler_pc, shutdown, closed, sent,
               published, last>>
pubVars == <<pub_in, pub_out>>
docVars == <<documents, disk, tasks, closing, dlast>>
checkVars == <<walk, sanity, classify>>
notDocVars == <<source_map, rx, update, handler_pc, shutdown, closed, sent,
                published, last, log, pub_in, pub_out, checkVars>>
vars == <<source_map, rx, update, handler_pc, shutdown, closed, sent,
          published, last, log, pub_in, pub_out,
          documents, disk, tasks, closing, dlast, walk, sanity, classify>>

EmptyMap == [x \in {} |-> x]

InitCoord ==
    /\ source_map = EmptyMap
    /\ rx = 0
    /\ update = None
    /\ handler_pc = "select"
    /\ shutdown = FALSE
    /\ closed = FALSE
    /\ sent = 0
    /\ published = EmptyMap
    /\ last = None
    /\ log = <<>>

InitPubIdle ==
    /\ pub_in = <<>>
    /\ pub_out = <<>>

\* no document loaded, no file on disk, no load running
InitDocs ==
    /\ documents = EmptyMap
    /\ disk = EmptyMap
    /\ tasks = EmptyBag
    /\ closing = {}
    /\ dlast = None

\* no call of a check function under way
InitCheckIdle ==
    /\ walk = WalkIdle
    /\ sanity = None
    /\ classify = None

Init == InitCoord /\ InitPubIdle /\ InitDocs /\ InitCheckIdle

(***************************************************************************)
(* Coordinator: the producers, the channel, diagnostic_handler.            *)
(***************************************************************************)
\* A check phase sends one DiagnosticUpdate. Nothing reads an update between
\* the send and the receive, and the producers do not read the Coordinator's
\* state: the channel is the number of updates in flight, and the content of
\* an update is drawn when diagnostic_handler receives it.
SendUpTo(n) ==
    /\ ~closed
    /\ sent < n
    /\ rx' = rx + 1
    /\ sent' = sent + 1
    /\ UNCHANGED <<source_map, update, handler_pc, shutdown, closed,
                   published, last, log, pubVars, docVars, checkVars>>

Send == SendUpTo(MaxUpdates)

\* the last Sender is dropped
CloseChannel ==
    /\ ~closed
    /\ closed' = TRUE
    /\ UNCHANGED <<source_map, rx, update, handler_pc, shutdown, sent,
                   published, last, log, pubVars, docVars, checkVars>>

\* Backend::shutdown: self.semantic.shutdown.cancel()
Shutdown ==
    /\ ~shutdown
    /\ shutdown' = TRUE
    /\ UNCHANGED <<source_map, rx, update, handler_pc, closed, sent,
                   published, last, log, pubVars, docVars, checkVars>>

\* mutant of select!: the for loop is part of the future that select! polls
\* and is dropped when shutdown is cancelled
SelectShutdownMidUpdate ==
    /\ handler_pc \in {"select", "drain"}
    /\ shutdown
    /\ handler_pc' = "returned"
    /\ UNCHANGED <<source_map, rx, update, shutdown, closed, sent,
                   published, last, log, pubVars, docVars, checkVars>>

\* select!: the branch `_ = ctx.shutdown.cancelled() => return`
SelectShutdown ==
    /\ handler_pc = "select"
    /\ shutdown
    /\ handler_pc' = "returned"
    /\ UNCHANGED <<source_map, rx, update, shutdown, closed, sent,
                   published, last, log, pubVars, docVars, checkVars>>

\* select!: the branch `Some(mut update) = rx.recv()`, of an update of
\* Upds; an update with no document ends the for loop at once
RecvFrom(Upds) ==
    /\ handler_pc = "select"
    /\ rx > 0
    /\ rx' = rx - 1
    /\ \E upd \in Upds :
          IF DOMAIN upd.error_state = {}
          THEN /\ update' = None
               /\ handler_pc' = "select"
          ELSE /\ update' = Some(upd)
               /\ handler_pc' = "drain"
    /\ UNCHANGED <<source_map, shutdown, closed, sent, published, last, log,
                   pubVars, docVars, checkVars>>

\* one turn of `for (uri, err) in update.error_state.drain()`: the call of
\* maybe_publish and, in it, of publish
ProcessCore(uri) ==
    /\ handler_pc = "drain"
    /\ IsSome(update)
    /\ uri \in DOMAIN Get(update).error_state
    /\ LET upd == Get(update)
           err == upd.error_state[uri]
           r   == MaybePublish(source_map, uri, err, upd.timestamp)
           rest == MapDel(upd.error_state, uri)
       IN  /\ source_map' = r.source_map
           /\ published' =
                IF IsSome(r.handed)
                THEN MapPut(published, uri,
                            [timestamp |-> upd.timestamp,
                             diags |-> Publish(Get(r.handed))])
                ELSE published
           /\ last' = Some([uri |-> uri, timestamp |-> upd.timestamp, err |-> err,
                            old |-> IF uri \in DOMAIN source_map
                                    THEN Some(source_map[uri]) ELSE None,
                            handed |-> r.handed])
           /\ IF DOMAIN rest = {}
              THEN /\ update' = None
                   /\ handler_pc' = "select"
              ELSE /\ update' = Some([upd EXCEPT !.error_state = rest])
                   /\ handler_pc' = "drain"
    /\ UNCHANGED <<rx, shutdown, closed, sent, pubVars, docVars, checkVars>>

RecvOver(U) == RecvFrom(UpdatesOver(U))

Recv == RecvOver(URIs)

Process ==
    \E uri \in URIs : ProcessCore(uri) /\ UNCHANGED log

\* the producers and the receive loop while the server runs
Next ==
    \/ Send
    \/ Recv
    \/ Process

Spec == Init /\ [][Next]_vars

\* the same with the end of the server: the senders dropped, the shutdown
\* request, the return of diagnostic_handler
SendLife == SendUpTo(MaxLifeUpdates)

NextLife ==
    \/ SendLife
    \/ CloseChannel
    \/ Shutdown
    \/ SelectShutdown
    \/ Recv
    \/ Process

SpecLife == Init /\ [][NextLife]_vars

\* the runtime keeps polling the task of diagnostic_handler: a branch of
\* select! that stays ready is taken, and the for loop goes on
FairLife ==
    /\ WF_vars(SelectShutdown)
    /\ WF_vars(Recv)
    /\ WF_vars(Process)

SpecLifeFair == SpecLife /\ FairLife

(***************************************************************************)
(* The Coordinator fed with the batches of one document, the processed     *)
(* batches logged.                                                         *)
(***************************************************************************)
SeqURIs == {"u1"}

RecvSeq == RecvOver(SeqURIs)

ProcessLogged ==
    \E uri \in SeqURIs :
        /\ ProcessCore(uri)
        /\ log' = Append(log, [uri |-> uri,
                               timestamp |-> Get(update).timestamp,
                               err |-> Get(update).error_state[uri]])

NextSeq ==
    \/ Send
    \/ RecvSeq
    \/ ProcessLogged

SpecSeq == Init /\ [][NextSeq]_vars

\* the same with the batches in which check_sanity and check_errors report
\* together: a list may hold an entry of weight 100 and one of weight 80
MaskErrs == BatchErrs \cup {<<ErrA, ErrB>>, <<ErrB, ErrA>>}

RecvMask == RecvFrom(UpdatesWith(SeqURIs, MaskErrs))

NextMask ==
    \/ Send
    \/ RecvMask
    \/ ProcessLogged

SpecMask == Init /\ [][NextMask]_vars

(***************************************************************************)
(* The Publisher on its own: publish applied once to any list of at most   *)
(* MaxLen ErrorInfo values.                                                *)
(***************************************************************************)
ErrLists == UNION { [1..n -> ErrorInfo] : n \in 0..MaxLen }

InitPub ==
    /\ InitCoord
    /\ InitDocs
    /\ InitCheckIdle
    /\ pub_in \in ErrLists
    /\ pub_out = <<>>

\* publish(client, uri, pub_in): one client.publish_diagnostics call
PublishCall ==
    /\ pub_out = <<>>
    /\ pub_out' = Append(pub_out, Publish(pub_in))
    /\ UNCHANGED <<coordVars, log, pub_in, docVars, checkVars>>

NextPub == PublishCall

SpecPub == InitPub /\ [][NextPub]_vars

(***************************************************************************)
(* ts_filterd_visit on its own: one call on any tree of at most MaxNodes   *)
(* nodes below the root, with any predicate.                               *)
(***************************************************************************)
InitWalk ==
    /\ InitCoord
    /\ InitPubIdle
    /\ InitDocs
    /\ sanity = None
    /\ classify = None
    /\ \E tree \in Trees :
         \E deny \in SUBSET DOMAIN tree : walk = WalkInit(tree, deny)

WalkStart ==
    /\ walk.pc = "start"
    /\ walk' = WalkStartOf(walk)
    /\ UNCHANGED <<coordVars, log, pubVars, docVars, sanity, classify>>

WalkVisit ==
    /\ walk.pc = "visit"
    /\ walk' = WalkVisitOf(walk)
    /\ UNCHANGED <<coordVars, log, pubVars, docVars, sanity, classify>>

WalkClimb ==
    /\ walk.pc = "climb"
    /\ walk' = WalkClimbOf(walk)
    /\ UNCHANGED <<coordVars, log, pubVars, docVars, sanity, classify>>

NextWalk ==
    \/ WalkStart
    \/ WalkVisit
    \/ WalkClimb

SpecWalk == InitWalk /\ [][NextWalk]_vars

\* the call is not suspended: it has no await
SpecWalkFair == SpecWalk /\ WF_vars(NextWalk)

(***************************************************************************)
(* classify_error on its own: one call on an error node with any text of   *)
(* at most MaxText characters.                                             *)
(***************************************************************************)
InitClassify ==
    /\ InitCoord
    /\ InitPubIdle
    /\ InitDocs
    /\ walk = WalkIdle
    /\ sanity = None
    /\ \E text \in Texts :
          classify = Some([root |-> ErrorNode(0, text), out |-> None])

ClassifyCall ==
    /\ IsSome(classify)
    /\ Get(classify).out = None
    /\ classify' = Some([Get(classify) EXCEPT
                            !.out = Some(ClassifyError(Get(classify).root))])
    /\ UNCHANGED <<coordVars, log, pubVars, docVars, walk, sanity>>

NextClassify == ClassifyCall

SpecClassify == InitClassify /\ [][NextClassify]_vars

(***************************************************************************)
(* check_sanity on its own: one call on the match of one expr node with    *)
(* any tree of at most MaxSub nodes below it, or on at most MaxMatches      *)
(* matches of header, name and string nodes.                               *)
(***************************************************************************)
InitSanity ==
    /\ InitCoord
    /\ InitPubIdle
    /\ InitDocs
    /\ walk = WalkIdle
    /\ classify = None
    /\ \/ \E sp \in Spans : \E m \in ExprMatches(sp) :
             sanity = Some([matches |-> <<m>>, out |-> None])
       \/ \E n \in 0..MaxMatches : \E ms \in [1..n -> OtherMatches] :
             sanity = Some([matches |-> ms, out |-> None])

SanityCall ==
    /\ IsSome(sanity)
    /\ Get(sanity).out = None
    /\ sanity' = Some([Get(sanity) EXCEPT
                          !.out = Some(CheckSanity(Get(sanity).matches))])
    /\ UNCHANGED <<coordVars, log, pubVars, docVars, walk, classify>>

NextSanity == SanityCall

SpecSanity == InitSanity /\ [][NextSanity]_vars

(***************************************************************************)
(* Document ownership manager: the handlers, the load tasks, the files.    *)
(***************************************************************************)
\* the record of one operation on the document map: the entry of uri before
\* it, the modification time a load carried, and whether it called
\* semantic.documents.delete(uri, time)
OpRecord(op, uri, by_editor, modified, notified) ==
    Some([op |-> op, uri |-> uri, by_editor |-> by_editor,
          modified |-> modified, before |-> Lookup(documents, uri),
          notified |-> notified])

\* mutants of the predicate of remove_if
RemovePredAlways(v, by_editor) == TRUE
RemovePredEditorOnly(v, by_editor) == by_editor

\* the predicate of documents.remove_if in Backend::remove
RemovePred(v, by_editor) == by_editor \/ v /= OwnedByEditor

\* DashMap::remove_if(uri, pred): Some(removed value) and the map left
RemoveIf(m, uri, by_editor) ==
    IF uri \in DOMAIN m /\ RemovePred(m[uri], by_editor)
    THEN [removed |-> Some(m[uri]), map |-> MapDel(m, uri)]
    ELSE [removed |-> None, map |-> m]

\* mutant of Backend::remove: delete is sent whatever remove_if returned
RemoveNotifiesAlways(uri, by_editor) ==
    LET r == RemoveIf(documents, uri, by_editor)
    IN  /\ documents' = r.map
        /\ dlast' = OpRecord("remove", uri, by_editor, 0, TRUE)

\* Backend::remove(uri, by_editor)
Remove(uri, by_editor) ==
    LET r == RemoveIf(documents, uri, by_editor)
    IN  /\ documents' = r.map
        /\ dlast' = OpRecord("remove", uri, by_editor, 0, IsSome(r.removed))

\* tokio::task::spawn_blocking(move || load_blocking(uri, ..)), at most
\* MaxTasks tasks at once
Spawn(uri) ==
    /\ BagCardinality(tasks) < MaxTasks
    /\ tasks' = tasks (+) SetToBag({[pc |-> "open", uri |-> uri,
                                     modified |-> 0]})

\* a task moves from t to u, or ends
TaskMoves(t, u) == tasks' = (tasks (-) SetToBag({t})) (+) SetToBag({u})
TaskEnds(t) == tasks' = tasks (-) SetToBag({t})

\* mutant of the early return of Backend::load
LoadReturnsNever(m, uri) == FALSE

\* Backend::load: the early return for an editor-owned document
LoadReturns(m, uri) ==
    IF uri \in DOMAIN m THEN m[uri] = OwnedByEditor ELSE FALSE

\* Backend::load(uri)
Load(uri) ==
    IF LoadReturns(documents, uri)
    THEN UNCHANGED tasks
    ELSE Spawn(uri)

\* mutant of did_open: an entry already in the map is kept
DidOpenIfVacant(uri) ==
    /\ documents' = IF uri \in DOMAIN documents
                    THEN documents
                    ELSE MapPut(documents, uri, OwnedByEditor)
    /\ dlast' = OpRecord("did_open", uri, TRUE, 0, FALSE)
    /\ UNCHANGED <<disk, tasks, closing, notDocVars>>

\* did_open: documents.insert(uri, AsyncDraft::open(text, OwnedByEditor, ..))
DidOpen(uri) ==
    /\ documents' = MapPut(documents, uri, OwnedByEditor)
    /\ dlast' = OpRecord("did_open", uri, TRUE, 0, FALSE)
    /\ UNCHANGED <<disk, tasks, closing, notDocVars>>

\* did_close, first half: self.remove(uri, true).await
DidCloseRemove(uri) ==
    /\ uri \notin closing
    /\ Remove(uri, TRUE)
    /\ closing' = closing \cup {uri}
    /\ UNCHANGED <<disk, tasks, notDocVars>>

\* mutant of the second half of did_close: no reload
DidCloseLoadSkipped(uri) ==
    /\ uri \in closing
    /\ closing' = closing \ {uri}
    /\ dlast' = OpRecord("load", uri, TRUE, 0, FALSE)
    /\ UNCHANGED <<documents, disk, tasks, notDocVars>>

\* did_close, second half: self.load(uri)
DidCloseLoad(uri) ==
    /\ uri \in closing
    /\ Load(uri)
    /\ closing' = closing \ {uri}
    /\ dlast' = OpRecord("load", uri, TRUE, 0, FALSE)
    /\ UNCHANGED <<documents, disk, notDocVars>>

\* did_change_watched_files, FileChangeType::CREATED and ::CHANGED
WatchChanged(uri) ==
    /\ Load(uri)
    /\ dlast' = OpRecord("load", uri, FALSE, 0, FALSE)
    /\ UNCHANGED <<documents, disk, closing, notDocVars>>

\* did_change_watched_files, FileChangeType::DELETED
WatchDeleted(uri) ==
    /\ Remove(uri, FALSE)
    /\ UNCHANGED <<disk, tasks, closing, notDocVars>>

\* initialize / load_all_blocking: load_blocking for a file walkdir found,
\* without the early return of Backend::load
LoadAll(uri) ==
    /\ uri \in DOMAIN disk
    /\ Spawn(uri)
    /\ dlast' = OpRecord("load_all", uri, FALSE, 0, FALSE)
    /\ UNCHANGED <<documents, disk, closing, notDocVars>>

\* mutant of load_blocking: a file that cannot be opened is taken for a
\* deleted one and its entry is dropped
TaskOpenDropsOnFail(t) ==
    /\ BagIn(t, tasks)
    /\ t.pc = "open"
    /\ LET uri == t.uri
       IN  /\ IF uri \in DOMAIN disk /\ disk[uri].fault /= "meta"
              THEN /\ TaskMoves(t, [pc |-> "check", uri |-> uri,
                                    modified |-> disk[uri].modified])
                   /\ UNCHANGED documents
              ELSE /\ TaskEnds(t)
                   /\ documents' = MapDel(documents, uri)
           /\ dlast' = OpRecord("open", uri, FALSE, 0, FALSE)
    /\ UNCHANGED <<disk, closing, notDocVars>>

\* load_blocking: File::open, f.metadata(), meta.modified()
TaskOpen(t) ==
    /\ BagIn(t, tasks)
    /\ t.pc = "open"
    /\ LET uri == t.uri
       IN  /\ IF uri \in DOMAIN disk /\ disk[uri].fault /= "meta"
              THEN TaskMoves(t, [pc |-> "check", uri |-> uri,
                                 modified |-> disk[uri].modified])
              ELSE TaskEnds(t)
           /\ dlast' = OpRecord("open", uri, FALSE, 0, FALSE)
    /\ UNCHANGED <<documents, disk, closing, notDocVars>>

\* mutant of the first check of load_blocking: the state is not looked at
FirstCheckSkipped(m, uri, modified) == TRUE

\* load_blocking: `if let Some(old) = documents.get(&uri)` and can_update;
\* FALSE is the early return Ok(())
FirstCheck(m, uri, modified) ==
    IF uri \in DOMAIN m
    THEN CanUpdate(m[uri], OwnedByOs(modified))
    ELSE TRUE

\* load_blocking: the first check, then f.read_to_string(&mut data). The
\* file is read through the handle opened before, so a file deleted since
\* is still read. The read touches no shared state but the file, and is
\* taken in the step of the check.
TaskCheck(t) ==
    /\ BagIn(t, tasks)
    /\ t.pc = "check"
    /\ LET uri == t.uri
           readFails == uri \in DOMAIN disk /\ disk[uri].fault = "read"
       IN  /\ IF FirstCheck(documents, uri, t.modified) /\ ~readFails
              THEN TaskMoves(t, [t EXCEPT !.pc = "entry"])
              ELSE TaskEnds(t)
           /\ dlast' = OpRecord("check", uri, FALSE, t.modified, FALSE)
    /\ UNCHANGED <<documents, disk, closing, notDocVars>>

\* mutants of the match on documents.entry(uri)
EntryInsertAlways(m, uri, modified) == MapPut(m, uri, OwnedByOs(modified))
EntryInsertUnlessEditor(m, uri, modified) ==
    IF uri \in DOMAIN m /\ m[uri] = OwnedByEditor
    THEN m
    ELSE MapPut(m, uri, OwnedByOs(modified))

\* mutant of the match on documents.entry(uri): a vacant entry is left vacant
EntryInsertOccupiedOnly(m, uri, modified) ==
    IF uri \notin DOMAIN m
    THEN m
    ELSE IF CanUpdate(m[uri], OwnedByOs(modified))
         THEN MapPut(m, uri, OwnedByOs(modified))
         ELSE m

\* load_blocking: match documents.entry(uri) { Vacant => insert,
\* Occupied => insert if can_update }
EntryInsert(m, uri, modified) ==
    IF uri \notin DOMAIN m
    THEN MapPut(m, uri, OwnedByOs(modified))
    ELSE IF CanUpdate(m[uri], OwnedByOs(modified))
         THEN MapPut(m, uri, OwnedByOs(modified))
         ELSE m

TaskEntry(t) ==
    /\ BagIn(t, tasks)
    /\ t.pc = "entry"
    /\ documents' = EntryInsert(documents, t.uri, t.modified)
    /\ dlast' = OpRecord("entry", t.uri, FALSE, t.modified, FALSE)
    /\ TaskEnds(t)
    /\ UNCHANGED <<disk, closing, notDocVars>>

\* the file system: a file is written (created or changed) with any
\* modification time, or deleted
DiskWrite(uri) ==
    /\ \E t \in 1..MaxMtime, f \in Faults :
          disk' = MapPut(disk, uri, [modified |-> t, fault |-> f])
    /\ UNCHANGED <<documents, tasks, closing, dlast, notDocVars>>

DiskDelete(uri) ==
    /\ uri \in DOMAIN disk
    /\ disk' = MapDel(disk, uri)
    /\ UNCHANGED <<documents, tasks, closing, dlast, notDocVars>>

NextDocs ==
    \/ \E uri \in DocURIs : DidOpen(uri)
    \/ \E uri \in DocURIs : DidCloseRemove(uri)
    \/ \E uri \in DocURIs : DidCloseLoad(uri)
    \/ \E uri \in DocURIs : WatchChanged(uri)
    \/ \E uri \in DocURIs : WatchDeleted(uri)
    \/ \E uri \in DocURIs : LoadAll(uri)
    \/ \E t \in TaskStates : TaskOpen(t)
    \/ \E t \in TaskStates : TaskCheck(t)
    \/ \E t \in TaskStates : TaskEntry(t)
    \/ \E uri \in DocURIs : DiskWrite(uri)
    \/ \E uri \in DocURIs : DiskDelete(uri)

SpecDocs == Init /\ [][NextDocs]_vars

\* The blocking pool runs every spawned task to its end, and a handler that
\* has started runs on. Backend::load is never blocked in the code; the
\* strong fairness of DidCloseLoad only makes up for the cap MaxTasks of
\* the model, under which its spawn waits for a free slot.
FairDocs ==
    /\ \A t \in TaskStates :
          /\ WF_vars(TaskOpen(t))
          /\ WF_vars(TaskCheck(t))
          /\ WF_vars(TaskEntry(t))
    /\ \A uri \in DocURIs : SF_vars(DidCloseLoad(uri))

SpecDocsFair == Init /\ [][NextDocs]_vars /\ FairDocs

(***************************************************************************)
(* Claims on the Coordinator and the Publisher.                            *)
(***************************************************************************)
\* C1: for every URI the stored timestamp never decreases, and the
\* timestamps of the successive publishes made for that URI never decrease.
C1_TimestampsMonotonic ==
    [][\A u \in URIs :
          /\ u \in DOMAIN source_map =>
                /\ u \in DOMAIN source_map'
                /\ source_map'[u].timestamp >= source_map[u].timestamp
          /\ u \in DOMAIN published =>
                /\ u \in DOMAIN published'
                /\ published'[u].timestamp >= published[u].timestamp]_vars

\* a batch older than the last publish of its document has been processed
\* and the client still holds the newer publish
C1_Witness ==
    /\ IsSome(last)
    /\ Get(last).uri \in DOMAIN published
    /\ Get(last).timestamp < published[Get(last).uri].timestamp
    /\ Get(last).err /= <<>>

\* C2: a batch whose timestamp is strictly smaller than the stored one is
\* dropped: stored timestamp and error list unchanged, publish not called.
C2_StaleDropped ==
    (IsSome(last) /\ IsSome(Get(last).old)
        /\ Get(last).timestamp < Get(Get(last).old).timestamp)
    => /\ Get(last).uri \in DOMAIN source_map
       /\ source_map[Get(last).uri] = Get(Get(last).old)
       /\ Get(last).handed = None

C2_Witness ==
    /\ IsSome(last) /\ IsSome(Get(last).old)
    /\ Get(last).timestamp < Get(Get(last).old).timestamp
    /\ Get(last).err = <<ErrA>>
    /\ Get(Get(last).old).error = <<ErrB>>

\* C3: a batch whose timestamp equals the stored one is appended after the
\* stored errors, the timestamp is unchanged, and the combined list is what
\* publish is called with.
C3_EqualAppends ==
    (IsSome(last) /\ IsSome(Get(last).old)
        /\ Get(last).timestamp = Get(Get(last).old).timestamp)
    => LET l == Get(last)
           combined == Get(l.old).error \o l.err
       IN  /\ l.uri \in DOMAIN source_map
           /\ source_map[l.uri].timestamp = Get(l.old).timestamp
           /\ source_map[l.uri].error = combined
           /\ SubSeq(source_map[l.uri].error, 1, Len(Get(l.old).error))
                = Get(l.old).error
           /\ l.handed = Some(combined)

C3_Witness ==
    /\ IsSome(last) /\ IsSome(Get(last).old)
    /\ Get(last).timestamp = Get(Get(last).old).timestamp
    /\ Get(Get(last).old).error = <<ErrB, ErrA>>
    /\ Get(last).err = <<ErrB>>

\* C4: a batch for a URI without stored state, or with a strictly greater
\* timestamp than the stored one, replaces the stored list and timestamp,
\* and exactly the batch's list is what publish is called with.
C4_NewerReplaces ==
    (IsSome(last)
        /\ (Get(last).old = None
            \/ Get(last).timestamp > Get(Get(last).old).timestamp))
    => LET l == Get(last)
       IN  /\ l.uri \in DOMAIN source_map
           /\ source_map[l.uri] = [timestamp |-> l.timestamp, error |-> l.err]
           /\ l.handed = Some(l.err)

C4_Witness ==
    /\ IsSome(last) /\ IsSome(Get(last).old)
    /\ Get(last).timestamp > Get(Get(last).old).timestamp
    /\ Get(Get(last).old).error = <<ErrA, ErrB>>
    /\ Get(last).err = <<ErrB>>
    /\ source_map[Get(last).uri].error = <<ErrB>>

\* the batches of the log that are for document u
RECURSIVE BatchesOf(_, _)
BatchesOf(lg, u) ==
    IF lg = <<>> THEN <<>>
    ELSE IF Head(lg).uri = u THEN <<Head(lg)>> \o BatchesOf(Tail(lg), u)
    ELSE BatchesOf(Tail(lg), u)

MaxTimestamp(bs) ==
    CHOOSE t \in {bs[i].timestamp : i \in 1..Len(bs)} :
        \A i \in 1..Len(bs) : bs[i].timestamp <= t

\* the error lists of the batches with timestamp t, concatenated in order
RECURSIVE ConcatAt(_, _)
ConcatAt(bs, t) ==
    IF bs = <<>> THEN <<>>
    ELSE (IF Head(bs).timestamp = t THEN Head(bs).err ELSE <<>>)
            \o ConcatAt(Tail(bs), t)

\* C5: after any sequence of batches for one URI the stored timestamp is
\* the maximum timestamp of the sequence and the stored list is the
\* concatenation, in arrival order, of the lists of the batches that
\* carried that maximum.
C5_FinalState ==
    \A u \in SeqURIs :
        LET bs == BatchesOf(log, u)
        IN  IF bs = <<>>
            THEN u \notin DOMAIN source_map
            ELSE /\ u \in DOMAIN source_map
                 /\ source_map[u].timestamp = MaxTimestamp(bs)
                 /\ source_map[u].error = ConcatAt(bs, MaxTimestamp(bs))

\* the example of the spec: B1@2{a}, B2@2{b}, B3@1{a} ends as {a,b}@2
C5_Witness ==
    /\ Len(log) = 3
    /\ log[1].timestamp = 2 /\ log[1].err = <<ErrA>>
    /\ log[2].timestamp = 2 /\ log[2].err = <<ErrB>>
    /\ log[3].timestamp = 1 /\ log[3].err = <<ErrA>>
    /\ source_map["u1"] = [timestamp |-> 2, error |-> <<ErrA, ErrB>>]

\* the maximum weight of a non-empty list
MaxWeightOf(err) ==
    CHOOSE w \in {err[i].weight : i \in 1..Len(err)} :
        \A i \in 1..Len(err) : err[i].weight <= w

\* C6: publish makes exactly one publish_diagnostics call; for a non-empty
\* list its diagnostics are the entries of maximal weight, each once, in
\* reverse insertion order; for an empty list they are empty.
C6_PublishMaxWeight ==
    pub_out /= <<>> =>
        /\ Len(pub_out) = 1
        /\ IF pub_in = <<>>
           THEN pub_out[1] = <<>>
           ELSE LET w == MaxWeightOf(pub_in)
                    top == SelectSeq(pub_in, LAMBDA e : e.weight = w)
                    hit == {i \in 1..Len(pub_in) : pub_in[i].weight = w}
                IN  /\ Len(pub_out[1]) = Cardinality(hit)
                    /\ \A k \in 1..Len(top) :
                          pub_out[1][k] = diagnostic(top[Len(top) + 1 - k])

\* two entries of maximal weight around one of lower weight
C6_Witness ==
    /\ Len(pub_in) = 3
    /\ pub_in[1] = [msg |-> "a", weight |-> WeightSanity]
    /\ pub_in[2] = [msg |-> "a", weight |-> WeightSyntax]
    /\ pub_in[3] = [msg |-> "b", weight |-> WeightSanity]
    /\ pub_out = << <<[message |-> "b"], [message |-> "a"]>> >>

\* an empty list is published as one empty diagnostic set
C6_WitnessEmpty ==
    pub_in = <<>> /\ pub_out = << <<>> >>

(***************************************************************************)
(* Claims on the document ownership manager.                               *)
(***************************************************************************)
\* C7: an OwnedByEditor document is never replaced by an OwnedByOs document,
\* whatever the interleaving of load tasks and editor-open events: a step
\* that ends the editor's ownership is a remove of that URI, and leaves the
\* URI absent.
C7_EditorNeverReplacedByLoad ==
    [][\A u \in DocURIs :
          (IsOwnedByEditor(documents, u) /\ ~IsOwnedByEditor(documents', u))
          => /\ u \notin DOMAIN documents'
             /\ IsSome(dlast')
             /\ Get(dlast').op = "remove"
             /\ Get(dlast').uri = u]_vars

\* a load that passed its first check before the editor opened the document
\* has reached documents.entry and left the editor-owned entry in place
C7_Witness ==
    /\ IsSome(dlast)
    /\ Get(dlast).op = "entry"
    /\ Get(dlast).before = Some(OwnedByEditor)
    /\ IsOwnedByEditor(documents, Get(dlast).uri)

\* C8: remove(uri, by_editor) removes the entry iff it exists and (by_editor
\* or its state is not OwnedByEditor); an entry it does not remove is left
\* as it was.
C8_RemoveIff ==
    (IsSome(dlast) /\ Get(dlast).op = "remove")
    => LET l == Get(dlast)
           should == /\ IsSome(l.before)
                     /\ (l.by_editor \/ Get(l.before).tag /= "OwnedByEditor")
       IN  IF should
           THEN l.uri \notin DOMAIN documents
           ELSE Lookup(documents, l.uri) = l.before

\* a file-watch delete has left an editor-owned document in place
C8_Witness ==
    /\ IsSome(dlast)
    /\ Get(dlast).op = "remove"
    /\ ~Get(dlast).by_editor
    /\ Get(dlast).before = Some(OwnedByEditor)
    /\ IsOwnedByEditor(documents, Get(dlast).uri)

\* an editor removal has removed an editor-owned document
C8_WitnessEditor ==
    /\ IsSome(dlast)
    /\ Get(dlast).op = "remove"
    /\ Get(dlast).by_editor
    /\ Get(dlast).before = Some(OwnedByEditor)
    /\ Get(dlast).uri \notin DOMAIN documents

\* C9: a load that read modification time t leaves an OwnedByOs(t') entry
\* with t <= t' as it is, and whenever an OwnedByOs entry is replaced by
\* another the modification time strictly increases.
C9_FreshnessStrict ==
    [][\A u \in DocURIs :
          /\ (IsOwnedByOs(documents, u) /\ IsOwnedByOs(documents', u)
                /\ documents'[u] /= documents[u])
             => documents'[u].modified > documents[u].modified
          /\ (IsOwnedByOs(documents, u) /\ dlast' /= dlast
                /\ Get(dlast').op = "entry" /\ Get(dlast').uri = u
                /\ Get(dlast').modified <= documents[u].modified)
             => documents'[u] = documents[u]]_vars

\* of two racing loads the one that read the older modification time
\* reached documents.entry last, and the newer entry stayed
C9_Witness ==
    /\ IsSome(dlast)
    /\ Get(dlast).op = "entry"
    /\ IsSome(Get(dlast).before)
    /\ Get(Get(dlast).before).tag = "OwnedByOs"
    /\ Get(dlast).modified < Get(Get(dlast).before).modified
    /\ documents[Get(dlast).uri] = Get(Get(dlast).before)

\* the file of uri exists and every step of reading it succeeds
DiskOk(uri) == uri \in DOMAIN disk /\ disk[uri].fault = "none"

\* C10: after did_close has removed the document, the document is
\* eventually in the map again as OwnedByOs, unless the file stops being
\* there and readable or the editor opens the document again.
C10_CloseReloads ==
    \A u \in DocURIs :
        (u \in closing)
            ~> (\/ IsOwnedByOs(documents, u)
                \/ IsOwnedByEditor(documents, u)
                \/ ~DiskOk(u))

\* did_close has removed an editor-owned document whose file is readable,
\* and its load has spawned the task that reads the file
C10_Witness ==
    /\ IsSome(dlast)
    /\ Get(dlast).op = "load"
    /\ Get(dlast).by_editor
    /\ Get(dlast).before = None
    /\ DiskOk(Get(dlast).uri)
    /\ BagIn([pc |-> "open", uri |-> Get(dlast).uri, modified |-> 0], tasks)


(***************************************************************************)
(* C11: diagnostic_handler terminates when shutdown fires, and also        *)
(* terminates when the channel is permanently closed (every Sender         *)
(* dropped) and empty; no error is raised in either case.                  *)
(***************************************************************************)
C11_Terminates ==
    /\ shutdown ~> (handler_pc = "returned")
    /\ (closed /\ rx = 0) ~> (handler_pc = "returned")

\* the half of C11 about shutdown alone
C11_ShutdownTerminates == shutdown ~> (handler_pc = "returned")

\* the state the handler waits in for ever: no branch of select! is ready
C11_Waiting ==
    /\ closed
    /\ rx = 0
    /\ ~shutdown
    /\ handler_pc = "select"
    /\ ~ENABLED (SelectShutdown \/ Recv \/ Process)


\* C12: Backend::remove sends delete(uri, time) to the semantic registry
\* exactly when remove_if removed an entry of the document map; when
\* nothing was removed (no entry, or an editor-owned entry and a removal
\* that does not come from the editor) the registry is not notified.
C12_NotifiedIffRemoved ==
    IsSome(dlast) /\ Get(dlast).op = "remove"
    => LET l == Get(dlast)
           removed == IsSome(l.before) /\ l.uri \notin DOMAIN documents
       IN  /\ l.notified <=> removed
           /\ ~removed => Lookup(documents, l.uri) = l.before

\* a removal took an entry out and notified the registry
C12_Witness ==
    /\ IsSome(dlast)
    /\ Get(dlast).op = "remove"
    /\ IsSome(Get(dlast).before)
    /\ Get(dlast).uri \notin DOMAIN documents
    /\ Get(dlast).notified

\* a file-watch removal met an editor-owned entry: nothing removed, no
\* notification
C12_WitnessKept ==
    /\ IsSome(dlast)
    /\ Get(dlast).op = "remove"
    /\ Get(dlast).before = Some(OwnedByEditor)
    /\ IsOwnedByEditor(documents, Get(dlast).uri)
    /\ ~Get(dlast).notified

\* a removal met no entry: no notification
C12_WitnessAbsent ==
    /\ IsSome(dlast)
    /\ Get(dlast).op = "remove"
    /\ Get(dlast).before = None
    /\ ~Get(dlast).notified


\* C19: did_open overwrites the entry of the URI whatever state it was in
\* (no entry, OwnedByOs of any modification time, OwnedByEditor): after it
\* the URI is OwnedByEditor.
C19_OpenOverwrites ==
    IsSome(dlast) /\ Get(dlast).op = "did_open"
    => Lookup(documents, Get(dlast).uri) = Some(OwnedByEditor)

\* did_open has replaced an entry loaded from the disk
C19_Witness ==
    /\ IsSome(dlast)
    /\ Get(dlast).op = "did_open"
    /\ IsSome(Get(dlast).before)
    /\ Get(Get(dlast).before).tag = "OwnedByOs"
    /\ IsOwnedByEditor(documents, Get(dlast).uri)

\* did_open has met no entry, and an entry of the editor
C19_WitnessVacant ==
    /\ IsSome(dlast)
    /\ Get(dlast).op = "did_open"
    /\ Get(dlast).before = None
    /\ IsOwnedByEditor(documents, Get(dlast).uri)

C19_WitnessEditor ==
    /\ IsSome(dlast)
    /\ Get(dlast).op = "did_open"
    /\ Get(dlast).before = Some(OwnedByEditor)
    /\ IsOwnedByEditor(documents, Get(dlast).uri)


\* the step a load task t is about to take fails: the file cannot be opened
\* or its metadata not read, or the content cannot be read
LoadFails(t) ==
    \/ /\ t.pc = "open"
       /\ (t.uri \notin DOMAIN disk \/ disk[t.uri].fault = "meta")
    \/ /\ t.pc = "check"
       /\ FirstCheck(documents, t.uri, t.modified)
       /\ t.uri \in DOMAIN disk
       /\ disk[t.uri].fault = "read"

\* C13: when a load fails to open the file, to read its metadata or
\* modification time, or to read its content, the step that fails ends the
\* load and leaves the document map as it was; the failure stays in the
\* task: the other tasks, the did_close in progress and the disk are left
\* alone.
C13_FailedLoadLeavesEntry ==
    [][\A t \in TaskStates :
          (BagIn(t, tasks) /\ LoadFails(t)
             /\ CopiesIn(t, tasks') < CopiesIn(t, tasks))
          => /\ documents' = documents
             /\ tasks' = tasks (-) SetToBag({t})
             /\ closing' = closing
             /\ disk' = disk]_vars

\* a load found its file gone: the entry an earlier load made is still there
C13_Witness ==
    /\ IsSome(dlast)
    /\ Get(dlast).op = "open"
    /\ BagCardinality(tasks) = 0
    /\ Get(dlast).uri \notin DOMAIN disk
    /\ IsSome(Get(dlast).before)
    /\ Lookup(documents, Get(dlast).uri) = Get(dlast).before

\* a load passed the first check and could not read the content: the older
\* entry is still there
C13_WitnessRead ==
    /\ IsSome(dlast)
    /\ Get(dlast).op = "check"
    /\ BagCardinality(tasks) = 0
    /\ Get(dlast).uri \in DOMAIN disk
    /\ disk[Get(dlast).uri].fault = "read"
    /\ IsSome(Get(dlast).before)
    /\ Get(Get(dlast).before).tag = "OwnedByOs"
    /\ Get(Get(dlast).before).modified < Get(dlast).modified
    /\ Lookup(documents, Get(dlast).uri) = Get(dlast).before


\* the number of entries of weight w in a list
RECURSIVE CountWeight(_, _)
CountWeight(err, w) ==
    IF err = <<>> THEN 0
    ELSE (IF Head(err).weight = w THEN 1 ELSE 0) + CountWeight(Tail(err), w)

\* C14: when the batches delivered for the current revision of a document
\* (one batch, or several batches of the same timestamp in either order)
\* hold diagnostics of weight 100 and of weight 80, what is published after
\* the last of them holds the weight-100 diagnostics, all of them, and
\* nothing else.
C14_SanityMasksSyntax ==
    \A u \in SeqURIs :
        LET bs == BatchesOf(log, u)
            delivered == ConcatAt(bs, MaxTimestamp(bs))
        IN  (bs /= <<>> /\ CountWeight(delivered, WeightSanity) > 0
                /\ CountWeight(delivered, WeightSyntax) > 0)
            => /\ u \in DOMAIN published
               /\ published[u].timestamp = MaxTimestamp(bs)
               /\ Len(published[u].diags) = CountWeight(delivered, WeightSanity)
               /\ \A i \in 1..Len(published[u].diags) :
                     published[u].diags[i] = diagnostic(ErrA)

\* the parse error came first and was shown, the sanity error of the same
\* revision came in a second batch and masks it
C14_Witness ==
    /\ Len(log) = 2
    /\ log[1].timestamp = log[2].timestamp
    /\ log[1].err = <<ErrB>>
    /\ log[2].err = <<ErrA>>
    /\ published["u1"].diags = <<diagnostic(ErrA)>>

\* the other arrival order, and both in one batch
C14_WitnessSanityFirst ==
    /\ Len(log) = 2
    /\ log[1].timestamp = log[2].timestamp
    /\ log[1].err = <<ErrA>>
    /\ log[2].err = <<ErrB>>
    /\ published["u1"].diags = <<diagnostic(ErrA)>>

C14_WitnessOneBatch ==
    /\ Len(log) = 1
    /\ log[1].err = <<ErrB, ErrA>>
    /\ published["u1"].diags = <<diagnostic(ErrA)>>


\* C20: diagnostic_handler is the one consumer and takes every per-URI
\* sub-batch of a received update through maybe_publish before it receives
\* the next update or observes shutdown: while an update is held, nothing
\* is received and the handler does not return, each step on the update
\* hands one of its sub-batches to maybe_publish, and a shutdown cancelled
\* in between does not leave the update half applied.
C20_WholeUpdate ==
    [][/\ handler_pc = "returned" => update = None
       /\ (handler_pc = "drain") = IsSome(update)
       /\ IsSome(update) => DOMAIN Get(update).error_state /= {}
       /\ IsSome(update) =>
            /\ handler_pc' /= "returned"
            /\ rx' >= rx
            /\ update' /= update =>
                 LET es  == Get(update).error_state
                     es2 == IF IsSome(update') THEN Get(update').error_state
                            ELSE EmptyMap
                 IN  /\ IsSome(update')
                        => Get(update').timestamp = Get(update).timestamp
                     /\ \E uri \in DOMAIN es :
                           /\ es2 = MapDel(es, uri)
                           /\ IsSome(last')
                           /\ Get(last').uri = uri
                           /\ Get(last').err = es[uri]
                           /\ Get(last').timestamp = Get(update).timestamp
                     /\ handler_pc' = IF DOMAIN es2 = {} THEN "select"
                                      ELSE "drain"]_vars

\* shutdown is cancelled, one sub-batch of the update has been through
\* maybe_publish and the other is still to come
C20_Witness ==
    /\ shutdown
    /\ handler_pc = "drain"
    /\ IsSome(update)
    /\ Cardinality(DOMAIN Get(update).error_state) = 1
    /\ IsSome(last)
    /\ Get(last).uri \notin DOMAIN Get(update).error_state
    /\ Get(last).timestamp = Get(update).timestamp
    /\ rx > 0

\* the handler has returned with updates left in the channel and none held
C20_WitnessReturned ==
    /\ handler_pc = "returned"
    /\ rx > 0
    /\ update = None
    /\ IsSome(last)


\* the proper descendants of x in pre-order, nothing below a node of deny
RECURSIVE PreOrderFrom(_, _, _, _)
PreOrderFrom(p, deny, x, after) ==
    LET ch == { i \in Children(p, x) : i > after }
    IN  IF ch = {} THEN <<>>
        ELSE LET c == MinOf(ch)
             IN  <<c>> \o (IF c \in deny THEN <<>>
                           ELSE PreOrderFrom(p, deny, c, 0))
                     \o PreOrderFrom(p, deny, x, c)

\* C18: ts_filterd_visit calls the predicate exactly once on every proper
\* descendant of the root that has no proper ancestor below the root on
\* which the predicate returned false, in pre-order depth-first order, and
\* on no other node; the call returns, with the cursor back on the root
\* when the root has a child.
C18_VisitsPreOrder ==
    /\ [](LET want == PreOrderFrom(walk.tree, walk.deny, Root, 0)
          IN  /\ Len(walk.calls) <= Len(want)
              /\ walk.calls = SubSeq(want, 1, Len(walk.calls))
              /\ walk.pc = "done" => /\ walk.calls = want
                                     /\ walk.cursor = Root)
    /\ <>(walk.pc = "done")

\* a call has returned: a node on which the predicate returned false has
\* children, and a node after it was still visited
C18_Witness ==
    /\ walk.pc = "done"
    /\ \E n \in walk.deny :
          /\ Children(walk.tree, n) /= {}
          /\ \E i, j \in 1..Len(walk.calls) :
                i < j /\ walk.calls[i] = n
    /\ Len(walk.calls) < Len(walk.tree)


\* the text holds one of the operators =>, <=>, &, |, +, -, *, /, >, <, ==
HasOperator(text) ==
    \E i \in 1..Len(text) :
        \/ text[i] \in {"&", "|", "+", "-", "*", "/", ">", "<"}
        \/ /\ i < Len(text)
           /\ text[i] = "="
           /\ text[i + 1] \in {">", "="}
        \/ /\ i + 2 <= Len(text)
           /\ text[i] = "<" /\ text[i + 1] = "=" /\ text[i + 2] = ">"

\* C17: classify_error gives "missing lhs or rhs expression" to an error
\* node whose text is on one line and holds one of the operators =>, <=>,
\* &, |, +, -, *, /, >, <, ==, and "unknown syntax error" to a one-line node
\* with none of them and to every node of several lines; the weight is
\* always 80 and the severity error.
C17_Classified ==
    (IsSome(classify) /\ IsSome(Get(classify).out))
    => LET text == Get(classify).root.text
           out  == Get(Get(classify).out)
           oneLine == \A i \in 1..Len(text) : text[i] /= "\n"
       IN  /\ out.weight = 80
           /\ out.severity = "ERROR"
           /\ out.msg = IF oneLine /\ HasOperator(text)
                        THEN "missing lhs or rhs expression"
                        ELSE "unknown syntax error"

\* a one-line node with <=> is a missing operand
C17_Witness ==
    /\ IsSome(classify)
    /\ Get(classify).root.text = <<"<", "=", ">">>
    /\ IsSome(Get(classify).out)
    /\ Get(Get(classify).out).msg = "missing lhs or rhs expression"

\* a node of two lines with an operator, and a one-line node with a lone =
C17_WitnessMultiLine ==
    /\ IsSome(classify)
    /\ Get(classify).root.text = <<"a", "\n", "+">>
    /\ IsSome(Get(classify).out)
    /\ Get(Get(classify).out).msg = "unknown syntax error"

C17_WitnessNoOperator ==
    /\ IsSome(classify)
    /\ Get(classify).root.text = <<"a", "=", "a">>
    /\ IsSome(Get(classify).out)
    /\ Get(Get(classify).out).msg = "unknown syntax error"


\* the call of check_sanity was on the match of one expr node of several
\* lines and has returned
ExprCallDone ==
    /\ IsSome(sanity)
    /\ IsSome(Get(sanity).out)
    /\ Len(Get(sanity).matches) = 1
    /\ Get(sanity).matches[1].kind = "expr"
    /\ Get(sanity).matches[1].start_row < Get(sanity).matches[1].end_row

\* every error of the call is the line-break error of weight 100 on the
\* matched node
OnlyLineBreakErrors ==
    \A k \in 1..Len(Get(Get(sanity).out)) :
        Get(Get(sanity).out)[k] =
            [weight |-> 100, severity |-> "ERROR",
             msg |-> "line breaks are only allowed inside parenthesis",
             node |-> 1]

\* C15 as stated: for a matched expr node of lines L..M with L < M, every
\* line of L..M that no nested_expr below the node covers yields exactly
\* one "line breaks are only allowed inside parenthesis" diagnostic of
\* weight 100, and every covered line yields none.
C15_EveryLineOfRange ==
    ExprCallDone =>
        LET m == Get(sanity).matches[1]
            covered(i) == \E n \in DOMAIN m.sub.nodes :
                             /\ m.sub.nodes[n].kind = "nested_expr"
                             /\ m.sub.nodes[n].start_row <= i
                             /\ i <= m.sub.nodes[n].end_row
        IN  /\ OnlyLineBreakErrors
            /\ Len(Get(Get(sanity).out)) =
                 Cardinality({ i \in m.start_row..m.end_row : ~covered(i) })

\* C15, amended: for a matched expr node of lines L..M with L < M, every
\* line of L..M-1, that is every line the expression goes on after, yields
\* exactly one "line breaks are only allowed inside parenthesis" diagnostic
\* of weight 100 unless a nested_expr below the node starts on or before it
\* and ends after it, and then it yields none; the last line M yields none.
C15_EveryLineBreak ==
    ExprCallDone =>
        LET m == Get(sanity).matches[1]
            inside(i) == \E n \in DOMAIN m.sub.nodes :
                            /\ m.sub.nodes[n].kind = "nested_expr"
                            /\ m.sub.nodes[n].start_row <= i
                            /\ i < m.sub.nodes[n].end_row
        IN  /\ OnlyLineBreakErrors
            /\ Len(Get(Get(sanity).out)) =
                 Cardinality({ i \in m.start_row..(m.end_row - 1) : ~inside(i) })

\* an expression of three lines whose first line break is inside a
\* nested_expr and whose second is not: one diagnostic
C15_Witness ==
    /\ ExprCallDone
    /\ Get(sanity).matches[1].start_row = 0
    /\ Get(sanity).matches[1].end_row = 2
    /\ Len(Get(sanity).matches[1].sub.nodes) = 1
    /\ Get(sanity).matches[1].sub.nodes[1] =
          [kind |-> "nested_expr", start_row |-> 0, end_row |-> 1]
    /\ Len(Get(Get(sanity).out)) = 1

\* an expression of two lines without parentheses: one diagnostic, for the
\* first line, and none for the second
C15_WitnessTwoLines ==
    /\ ExprCallDone
    /\ Get(sanity).matches[1].start_row = 0
    /\ Get(sanity).matches[1].end_row = 1
    /\ Len(Get(sanity).matches[1].sub.nodes) = 0
    /\ Len(Get(Get(sanity).out)) = 1


\* the call of check_sanity was on matches of header, name and string nodes
\* and has returned
HeaderCallDone ==
    /\ IsSome(sanity)
    /\ IsSome(Get(sanity).out)
    /\ \A k \in 1..Len(Get(sanity).matches) :
          Get(sanity).matches[k].kind = "other"

\* the places of the headers (pattern index 0) that start on row r
HeadersOn(r) ==
    { k \in 1..Len(Get(sanity).matches) :
        /\ Get(sanity).matches[k].pattern_index = 0
        /\ Get(sanity).matches[k].start_row = r }

\* the places in the result of the errors with message msg on node k
ErrorsOn(msg, k) ==
    { e \in 1..Len(Get(Get(sanity).out)) :
        /\ Get(Get(sanity).out)[e].msg = msg
        /\ Get(Get(sanity).out)[e].node = k }

\* two headers that start on the same row yield exactly one diagnostic with
\* message msg and weight 100, on the second of them, whatever headers start
\* on other rows; a header alone on its row yields none
SameLineRule(msg) ==
    HeaderCallDone =>
        \A r \in Rows :
            /\ Cardinality(HeadersOn(r)) = 2 =>
                 \E first, second \in HeadersOn(r) :
                    /\ first < second
                    /\ ErrorsOn(msg, first) = {}
                    /\ Cardinality(ErrorsOn(msg, second)) = 1
                    /\ \A e \in ErrorsOn(msg, second) :
                          Get(Get(sanity).out)[e].weight = 100
            /\ Cardinality(HeadersOn(r)) = 1 =>
                 \A k \in HeadersOn(r) : ErrorsOn(msg, k) = {}

\* C16: two header nodes (pattern index 0) that start on the same line
\* yield exactly one "features have to be in different lines" diagnostic of
\* weight 100, located on the second one encountered, regardless of how
\* many other headers start on other lines; headers that each start on
\* their own line yield none.
C16_SameLineHeaders == SameLineRule("features have to be in different lines")

\* the same for the message as check_sanity spells it
C16_AsSpelled == SameLineRule("features have to be in diffrent lines")

\* two headers on row 0 and a third on row 1: one error, on the second
C16_Witness ==
    /\ HeaderCallDone
    /\ Len(Get(sanity).matches) = 3
    /\ HeadersOn(0) = {1, 3}
    /\ HeadersOn(1) = {2}
    /\ \A k \in 1..3 : Get(sanity).matches[k].start_row =
                          Get(sanity).matches[k].end_row
    /\ Len(Get(Get(sanity).out)) = 1
    /\ Get(Get(sanity).out)[1].node = 3


\* C21: processing the sub-batch of one URI leaves the stored timestamp and
\* error list of every other URI as they were (and gives no other URI a
\* state), so the state every URI ends with after an update does not depend
\* on the order in which the URIs of the update are processed: for any two
\* URIs still to be processed, either order gives the same source_map and
\* hands the same lists to publish.
C21_OtherURIsUntouched ==
    [][/\ source_map' /= source_map =>
            /\ IsSome(last')
            /\ \A v \in URIs \ {Get(last').uri} :
                  Lookup(source_map', v) = Lookup(source_map, v)
       /\ IsSome(update) =>
            LET upd == Get(update)
                es  == upd.error_state
            IN  \A u, v \in DOMAIN es :
                   u /= v =>
                     LET ru  == MaybePublish(source_map, u, es[u], upd.timestamp)
                         ruv == MaybePublish(ru.source_map, v, es[v], upd.timestamp)
                         rv  == MaybePublish(source_map, v, es[v], upd.timestamp)
                         rvu == MaybePublish(rv.source_map, u, es[u], upd.timestamp)
                     IN  /\ ruv.source_map = rvu.source_map
                         /\ ru.handed = rvu.handed
                         /\ rv.handed = ruv.handed]_vars

\* the second URI of an update has been processed and has replaced its own
\* state, and the first URI holds what the same update gave it
C21_Witness ==
    /\ IsSome(last)
    /\ update = None
    /\ IsSome(Get(last).handed)
    /\ IsSome(Get(last).old)
    /\ \E v \in DOMAIN source_map \ {Get(last).uri} :
          /\ source_map[v].timestamp = Get(last).timestamp
          /\ source_map[v].error /= <<>>
          /\ source_map[v].error /= source_map[Get(last).uri].error


\* the diagnostics of the entries of weight w, from the last entry to the
\* first
RECURSIVE DiagsFromEnd(_, _)
DiagsFromEnd(err, w) ==
    IF err = <<>> THEN <<>>
    ELSE (IF err[Len(err)].weight = w
          THEN <<diagnostic(err[Len(err)])>> ELSE <<>>)
         \o DiagsFromEnd(SubSeq(err, 1, Len(err) - 1), w)

\* C22: after the Coordinator has processed any batch, for every URI it has
\* state for, the diagnostics last published for that URI are the entries
\* of maximal weight of the stored error list of that URI, in reverse
\* order (none for an empty list), published with the stored timestamp; the
\* URIs with a stored state are the URIs with a publish.
C22_PublishedIsStored ==
    /\ DOMAIN published = DOMAIN source_map
    /\ \A u \in DOMAIN source_map :
          /\ published[u].timestamp = source_map[u].timestamp
          /\ published[u].diags =
                IF source_map[u].error = <<>> THEN <<>>
                ELSE DiagsFromEnd(source_map[u].error,
                                  MaxWeightOf(source_map[u].error))

\* a batch of equal timestamp was appended: the stored list holds a parse
\* error and then a sanity error, and the last publish shows the sanity
\* error alone
C22_Witness ==
    /\ IsSome(last)
    /\ IsSome(Get(last).old)
    /\ Get(last).timestamp = Get(Get(last).old).timestamp
    /\ source_map[Get(last).uri].error = <<ErrB, ErrA>>
    /\ published[Get(last).uri].diags = <<diagnostic(ErrA)>>

\* a stale batch was dropped: stored list and last publish are those of
\* the newer batch
C22_WitnessStale ==
    /\ IsSome(last)
    /\ IsSome(Get(last).old)
    /\ Get(last).timestamp < Get(Get(last).old).timestamp
    /\ Get(last).err = <<ErrA>>
    /\ source_map[Get(last).uri].error = <<ErrB>>
    /\ published[Get(last).uri].diags = <<diagnostic(ErrB)>>


\* the last operation on the document map is a file-watch delete that
\* removed an OS-owned document; every operation that starts a load records
\* itself in dlast, so every load task in flight was started before it
WatchRemovedLast ==
    /\ IsSome(dlast)
    /\ Get(dlast).op = "remove"
    /\ ~Get(dlast).by_editor
    /\ Get(dlast).notified
    /\ IsSome(Get(dlast).before)
    /\ Get(Get(dlast).before).tag = "OwnedByOs"

\* C23: once a file-watch delete, remove(uri, false), has removed an
\* OS-owned document, a load of the same URI that was started before the
\* removal and completes after it does not re-insert the document: the URI
\* stays absent from the document map until a load or an editor-open is
\* issued after the removal. Stated on the step that follows the removal,
\* where the loads in flight are those started before it.
C23_NoReinsertAfterWatchDelete ==
    [][WatchRemovedLast =>
          \/ Get(dlast).uri \notin DOMAIN documents'
          \/ /\ IsSome(dlast')
             /\ Get(dlast').op = "did_open"]_vars

\* C23, amended: after a removal the URI becomes present again only by
\* did_open, as OwnedByEditor, or by the documents.entry step of a load
\* task, as OwnedByOs of the modification time the task has read; and a
\* load task that reaches documents.entry while the URI is absent always
\* inserts, whether it was started before or after the removal.
C23_VacantEntryAccepts ==
    [][/\ \A u \in DocURIs :
            (u \notin DOMAIN documents /\ u \in DOMAIN documents')
            => /\ IsSome(dlast')
               /\ Get(dlast').uri = u
               /\ \/ /\ Get(dlast').op = "did_open"
                     /\ documents'[u] = OwnedByEditor
                  \/ /\ Get(dlast').op = "entry"
                     /\ documents'[u] = OwnedByOs(Get(dlast').modified)
       /\ \A t \in TaskStates :
            (BagIn(t, tasks) /\ t.pc = "entry"
               /\ CopiesIn(t, tasks') < CopiesIn(t, tasks)
               /\ t.uri \notin DOMAIN documents)
            => Lookup(documents', t.uri) = Some(OwnedByOs(t.modified))]_vars

\* a file-watch delete has just removed the OS-owned document while a load
\* started before it has read the file and stands before documents.entry
C23_Witness ==
    /\ WatchRemovedLast
    /\ Get(dlast).uri \notin DOMAIN documents
    /\ \E t \in TaskStates :
          BagIn(t, tasks) /\ t.pc = "entry" /\ t.uri = Get(dlast).uri

\* the document is in the map again, loaded from a file that is gone
C23_WitnessReinserted ==
    /\ IsSome(dlast)
    /\ Get(dlast).op = "entry"
    /\ Get(dlast).before = None
    /\ Get(dlast).uri \notin DOMAIN disk
    /\ IsOwnedByOs(documents, Get(dlast).uri)
    /\ BagCardinality(tasks) = 0

=============================================================================
